---- MODULE Spec2Model ----
(***************************************************************************)
(* Model of the alert pipeline of the crypto alert system:                 *)
(*   src/src/alerts/deduplication.py  AlertDeduplicator                    *)
(*   src/src/main.py                  CryptoAlertSystem._process_single_coin*)
(*   src/src/indicators/cipherb.py    detect_cipherb_signals                *)
(*   src/src/professional_analyzer.py ProfessionalAnalyzer.is_new_4h_candle *)
(*   src/src/indicators/heikin_ashi.py heikin_ashi                          *)
(*   src/src/analyzer/dual_confirmation.py DualConfirmationAnalyzer         *)
(*   src/src/indicators/stochrsi_3h.py check_stochrsi_confirmation          *)
(*                                                                         *)
(* Strings are sequences of one-character strings, so that str.upper() and *)
(* the f-string that builds the cache key are computed, not assumed.       *)
(* time.time() is the variable now, sampled at the instants ClockValues.   *)
(* The stats counters of AlertDeduplicator are write-only (no decision     *)
(* reads them) and are not part of the state.                              *)
(***************************************************************************)
EXTENDS Integers, Sequences, FiniteSets, TLC

\* ------------------------------------------------------------------ bounds
\* The clock runs over 0 .. MaxHours hours.
MaxHours == 2

\* ------------------------------------------------------- program constants
\* deduplication.py:41  self.config.get('alerts', {}).get('cooldown_hours', 2)
cooldown_hours == 2
\* deduplication.py:42  seconds in an hour
SecondsPerHour == 3600
\* main.py:236  fetch_ohlcv_data(trading_symbol, '1h', 50): width of a candle
TimeframeSeconds == 3600

\* deduplication.py:42
cooldown_seconds == cooldown_hours * SecondsPerHour

\* The instants at which the clock is read: every full hour and the second
\* before it.
ClockValues ==
    {h * SecondsPerHour : h \in 0..MaxHours} \cup
    {h * SecondsPerHour - 1 : h \in 1..MaxHours}

\* Open time of the candle of width TimeframeSeconds that contains t.
BucketStart(t) == (t \div TimeframeSeconds) * TimeframeSeconds

\* ----------------------------------------------------------------- strings
LowerLetters == <<"a","b","c","d","e","f","g","h","i","j","k","l","m",
                  "n","o","p","q","r","s","t","u","v","w","x","y","z">>
UpperLetters == <<"A","B","C","D","E","F","G","H","I","J","K","L","M",
                  "N","O","P","Q","R","S","T","U","V","W","X","Y","Z">>

\* str.upper() on one character
UpperChar(c) ==
    IF \E i \in DOMAIN LowerLetters : LowerLetters[i] = c
    THEN UpperLetters[CHOOSE i \in DOMAIN LowerLetters : LowerLetters[i] = c]
    ELSE c

\* str.upper()
Upper(s) == [i \in DOMAIN s |-> UpperChar(s[i])]

\* The (symbol, signal_type) arguments the deduplicator is called with.
Inputs ==
    { << <<"B","T","C">>, <<"B","U","Y">> >>,
      << <<"b","t","c">>, <<"b","u","y">> >>,
      << <<"B","T","C">>, <<"S","E","L","L">> >>,
      << <<"E","T","H">>, <<"B","U","Y">> >> }

\* The (symbol, signalType) pair an input denotes, letter case aside.
Canon(symbol, signal_type) == <<Upper(symbol), Upper(signal_type)>>

\* main.py:223  coin_data.get('symbol', ''): the symbols of the coin lists
Coins == { <<"b","t","c">> }
\* main.py:255-258  the signal types of the pipeline
BUY == <<"B","U","Y">>
SELL == <<"S","E","L","L">>

Pairs ==
    {Canon(i[1], i[2]) : i \in Inputs} \cup
    {Canon(c, t) : c \in Coins, t \in {BUY, SELL}}

\* deduplication.py:99-101  f"{symbol.upper()}_{signal_type.upper()}"
get_cache_key_no_upper(symbol, signal_type) == symbol \o <<"_">> \o signal_type
get_cache_key_symbol_only(symbol, signal_type) == Upper(symbol)
get_cache_key(symbol, signal_type) ==
    Upper(symbol) \o <<"_">> \o Upper(signal_type)

\* ------------------------------------------------------------ dictionaries
EmptyDict == [k \in {} |-> 0]
DictSet(d, key, v) == [k \in DOMAIN d \cup {key} |-> IF k = key THEN v ELSE d[k]]
DictDel(d, keys) == [k \in DOMAIN d \ keys |-> d[k]]

\* json.dump of a dict: the set of its (key, value) members; json.load back.
JsonDump(d) == {<<k, d[k]>> : k \in DOMAIN d}
JsonLoad(text) ==
    [k \in {m[1] : m \in text} |-> (CHOOSE m \in text : m[1] = k)[2]]

\* ------------------------------------------------------------------- state
Procs == {1, 2}
NoRecord == [t |-> -1, candle |-> -1, key |-> <<>>, inst |-> FALSE]
NoCall == [op |-> "none", symbol |-> <<>>, signal_type |-> <<>>,
           key |-> <<>>, t |-> 0, ret |-> 0, io_error |-> FALSE]
NoResult == [signal_detected |-> FALSE, alert_sent |-> FALSE]
NoStoch == [state |-> "failed", k |-> 0]

VARIABLES
    now,          \* time.time()
    alert_cache,  \* AlertDeduplicator.alert_cache: key -> time of the alert
    cache_file,   \* cache/alert_cache.json: [state, data]
    load_failed,  \* _load_cache took its except branch ("Cache loading error")
    pc,           \* per caller: where it stands in _process_single_coin
    symbol,       \* per caller: local symbol
    signal_type,  \* per caller: local signal_type
    candle,       \* per caller: open time of the latest candle fetched
    latest_stoch, \* per caller: local latest_stoch (the stoch_rsi_k read)
    success,      \* per caller: local success, what send_signal_alert
                  \* delivered ("" before the call)
    result,       \* per caller: the result dict of _process_single_coin
                  \* (signal_detected, alert_sent; reason is a log text)
    obs,          \* the last call made on the deduplicator: its arguments, the
                  \* key it used, its time, what it returned and whether it
                  \* printed an I/O error
    recorded      \* per pair: the last record_alert not reset since (its time,
                  \* the candle of the signal, the key it stored, and whether
                  \* the deduplicator that recorded it is still the current one)

\* detect_cipherb_signals (cipherb.py)
VARIABLES
    wt_series,    \* the WaveTrend lines: per index the row [wt1, wt2]
    signals_df    \* the DataFrame detect_cipherb_signals returns (<<>>: not
                  \* called yet)

\* ProfessionalAnalyzer.is_new_4h_candle (professional_analyzer.py)
VARIABLES
    clock_4h,     \* [current_time, signal_timestamp]: datetime.now() and the
                  \* argument of the call
    is_new        \* [called, ret]: what is_new_4h_candle returned

\* heikin_ashi (heikin_ashi.py)
VARIABLES
    df,           \* the OHLC candles given to heikin_ashi
    ha_df         \* [called, raised, rows]: what heikin_ashi returned

\* CryptoAlertSystem.run_signal_detection (main.py)
VARIABLES
    run_pc,         \* where run_signal_detection stands: "idle", in the loop
                    \* of _process_coin_category for "standard" or for
                    \* "high_risk", or "done" (it returned)
    filtered_coins, \* local filtered_coins: per category the list of coins
    scan,           \* the locals of _process_coin_category: the position in
                    \* coin_list, signals_found, alerts_sent, errors; and, as
                    \* history, the coins _process_single_coin was called
                    \* with and the positions of the coins that failed
    results         \* local results: per category what
                    \* _process_coin_category returned

\* DualConfirmationAnalyzer.run_dual_confirmation_analysis
\* (dual_confirmation.py)
VARIABLES
    dual_pc,           \* where the run stands: "idle", "loop", "send", "done"
    market_data,       \* self.market_data: the coins to analyze
    dual_i,            \* the position of the loop in market_data
    confirmed_signals, \* local confirmed_signals
    dual_calls,        \* the calls the run made on the deduplicator and the
                       \* notifier, in order
    last_analysis      \* the last call of analyze_coin_dual_confirmation:
                       \* what its collaborators delivered, the collaborators
                       \* it called, in order, and what it returned

core_vars == <<now, alert_cache, cache_file, load_failed, pc, symbol,
               signal_type, candle, latest_stoch, success, result, obs,
               recorded>>
cipher_vars == <<wt_series, signals_df>>
\* The variables the alert pipeline leaves alone.
fresh_vars == <<clock_4h, is_new>>
ha_vars == <<df, ha_df>>
run_vars == <<run_pc, filtered_coins, scan, results>>
\* wavetrend (cipherb.py), through detect_cipherb_signals
VARIABLES
    src,       \* the candles given to detect_cipherb_signals
    wave_df    \* the signals DataFrame returned from them

\* stochastic_rsi (stoch_rsi.py) and calculate_stochastic_rsi
\* (stochrsi_3h.py)
VARIABLES
    close_prices,  \* the price series given to both
    periods,       \* the arguments rsi_period and stoch_period
    stoch_rsi_out, \* what stochastic_rsi returned, with its raw %K
    stoch_3h_out   \* what calculate_stochastic_rsi returned, with its RSI
                   \* and its raw value

\* CipherBIndicator (cipherb.py)
VARIABLES
    indicator,   \* the fields __init__ set
    ha_data,     \* the candles given to calculate_signals: how many they
                 \* are, and the WaveTrend lines of the last of them
    ind_signals  \* what calculate_signals returned

\* ProfessionalAnalyzer: the new-candle gate of analyze_coin_professionally
VARIABLES
    scan_4h,     \* a scan: the open of the latest 4h candle (UTC), the
                 \* seconds from it to the scan, the UTC offset of the
                 \* host clock in minutes
    gate         \* what the gate was given and what it returned

dual_vars == <<dual_pc, market_data, dual_i, confirmed_signals, dual_calls,
               last_analysis>>
wave_vars == <<src, wave_df>>
\* The variables of the indicators examined on their own.
stoch_vars == <<close_prices, periods, stoch_rsi_out, stoch_3h_out>>
ind_vars == <<indicator, ha_data, ind_signals>>
gate_vars == <<scan_4h, gate>>
more_vars == <<wave_vars, stoch_vars, ind_vars, gate_vars>>
\* What the run of main.py leaves alone.
run_others == <<cipher_vars, fresh_vars, ha_vars, dual_vars, more_vars>>
aux_vars == <<cipher_vars, fresh_vars, ha_vars, run_vars, dual_vars,
              more_vars>>
vars == <<core_vars, aux_vars>>
pipeline_vars == <<pc, symbol, signal_type, candle, latest_stoch, success,
                   result>>

NoFile == [state |-> "missing", data |-> {}]

\* The alert system right after construction.
InitCore ==
    /\ now = 0
    /\ alert_cache = EmptyDict
    /\ cache_file = NoFile
    /\ load_failed = FALSE
    /\ pc = [p \in Procs |-> "idle"]
    /\ symbol = [p \in Procs |-> <<>>]
    /\ signal_type = [p \in Procs |-> <<>>]
    /\ candle = [p \in Procs |-> 0]
    /\ latest_stoch = [p \in Procs |-> NoStoch]
    /\ success = [p \in Procs |-> ""]
    /\ result = [p \in Procs |-> NoResult]
    /\ obs = NoCall
    /\ recorded = [k \in Pairs |-> NoRecord]

\* No indicator computation in progress.
NoCipher == wt_series = <<>> /\ signals_df = <<>>

\* A datetime: day number, hour, minute, second.
Midnight == [day |-> 0, hour |-> 0, minute |-> 0, second |-> 0]

\* No freshness check made.
NoFresh ==
    /\ clock_4h = [current_time |-> Midnight, signal_timestamp |-> Midnight]
    /\ is_new = [called |-> FALSE, ret |-> FALSE]

\* No candle conversion made.
NoHa ==
    /\ df = <<>>
    /\ ha_df = [called |-> FALSE, raised |-> FALSE, rows |-> <<>>]

\* main.py:141, 168  the categories of coins
Categories == {"standard", "high_risk"}
\* main.py:183-185  the locals of _process_coin_category before its loop
NewScan == [i |-> 1, signals_found |-> 0, alerts_sent |-> 0, errors |-> 0,
            attempted |-> <<>>, failed |-> {}]
NoCategoryResult ==
    [returned |-> FALSE, coins_processed |-> 0, signals_found |-> 0,
     alerts_sent |-> 0, has_errors |-> FALSE, errors |-> 0,
     attempted |-> <<>>, failed |-> {}]

\* No signal detection run in progress.
NoRun ==
    /\ run_pc = "idle"
    /\ filtered_coins = [c \in Categories |-> <<>>]
    /\ scan = NewScan
    /\ results = [c \in Categories |-> NoCategoryResult]

\* stochrsi_d_value: None, or a number
NoValue == [has |-> FALSE, v |-> 0]
NoSignal == [symbol |-> <<>>, signal_type |-> <<>>, stochrsi_status |-> "",
             stochrsi_d_value |-> NoValue]
NoAnalysis ==
    [called |-> FALSE, fetch_3h |-> "", d_line |-> [state |-> "", d |-> 0],
     log |-> <<>>, has |-> FALSE, signal |-> NoSignal]

\* No dual confirmation run in progress.
NoDual ==
    /\ dual_pc = "idle"
    /\ market_data = <<>>
    /\ dual_i = 1
    /\ confirmed_signals = <<>>
    /\ dual_calls = <<>>
    /\ last_analysis = NoAnalysis

\* No candles given to the WaveTrend oscillator.
NoWave ==
    /\ src = <<>>
    /\ wave_df = [called |-> FALSE, rows |-> <<>>]

\* No price series given to the Stochastic RSI.
NoStochRsi ==
    /\ close_prices = <<>>
    /\ periods = [rsi_period |-> 0, stoch_period |-> 0]
    /\ stoch_rsi_out = [called |-> FALSE]
    /\ stoch_3h_out = [called |-> FALSE]

\* No CipherBIndicator built.
NoIndicator ==
    /\ indicator = <<>>
    /\ ha_data = [len |-> 0, wt |-> <<>>]
    /\ ind_signals = [called |-> FALSE, none |-> FALSE, rows |-> <<>>]

\* No scan of the professional analyzer.
NoGate ==
    /\ scan_4h = [candle_open |-> Midnight, delay |-> 0, utc_offset |-> 0]
    /\ gate = [called |-> FALSE, latest_timestamp |-> Midnight,
               current_time |-> Midnight, ret |-> FALSE]

NoMore == NoWave /\ NoStochRsi /\ NoIndicator /\ NoGate

Init ==
    InitCore /\ NoCipher /\ NoFresh /\ NoHa /\ NoRun /\ NoDual /\ NoMore

\* ------------------------------------------------------ AlertDeduplicator
\* deduplication.py:87-97  _save_cache: the file after the call. io is what
\* the file system does: "ok"; "fail" (makedirs or open raises, file as it
\* was); "partial" (the write stops midway and leaves text json cannot read).
\* The exception is caught and printed in all cases.
save_cache(cache, file, io) ==
    CASE io = "ok" -> [state |-> "ok", data |-> JsonDump(cache)]
      [] io = "fail" -> file
      [] OTHER -> [state |-> "corrupt", data |-> {}]

\* deduplication.py:74  the filter of _load_cache
LoadKeeps_unfiltered(current_time, timestamp) == TRUE
LoadKeeps(current_time, timestamp) ==
    current_time - timestamp < cooldown_seconds

\* deduplication.py:63-85  _load_cache: [cache, failed]. io = "fail": open
\* raises.
load_cache(file, current_time, io) ==
    IF file.state = "missing"
    THEN [cache |-> EmptyDict, failed |-> FALSE]
    ELSE IF file.state = "corrupt" \/ io # "ok"
    THEN [cache |-> EmptyDict, failed |-> TRUE]
    ELSE LET cache_data == JsonLoad(file.data)
             kept == {k \in DOMAIN cache_data :
                         LoadKeeps(current_time, cache_data[k])}
         IN [cache |-> [k \in kept |-> cache_data[k]], failed |-> FALSE]

\* deduplication.py:122  if time_elapsed < self.cooldown_seconds
InCooldown_inclusive(time_elapsed) == time_elapsed <= cooldown_seconds
InCooldown_reversed(time_elapsed) == time_elapsed > cooldown_seconds
InCooldown_one_hour(time_elapsed) == time_elapsed < SecondsPerHour
InCooldown(time_elapsed) == time_elapsed < cooldown_seconds

\* deduplication.py:103-130  the value is_duplicate returns in this state
DuplicateAnswer(sym, typ) ==
    LET cache_key == get_cache_key(sym, typ)
    IN /\ cache_key \in DOMAIN alert_cache
       /\ InCooldown(now - alert_cache[cache_key])

\* deduplication.py:103-130  is_duplicate
is_duplicate(sym, typ) ==
    LET cache_key == get_cache_key(sym, typ)
        dup == DuplicateAnswer(sym, typ)
    IN /\ alert_cache' =
            IF cache_key \in DOMAIN alert_cache /\ ~dup
            THEN DictDel(alert_cache, {cache_key})
            ELSE alert_cache
       /\ obs' = [op |-> "is_duplicate", symbol |-> sym, signal_type |-> typ,
                  key |-> cache_key, t |-> now, ret |-> dup,
                  io_error |-> FALSE]
       /\ UNCHANGED <<cache_file, load_failed, recorded>>

\* deduplication.py:144  self.alert_cache[cache_key] = current_time
RecordStore_replaces_all(cache, cache_key, current_time) ==
    DictSet(EmptyDict, cache_key, current_time)
RecordStore(cache, cache_key, current_time) ==
    DictSet(cache, cache_key, current_time)

\* deduplication.py:132-150  record_alert, for a signal on candle cdl
record_alert(sym, typ, cdl, io) ==
    LET cache_key == get_cache_key(sym, typ)
        cache == RecordStore(alert_cache, cache_key, now)
    IN /\ alert_cache' = cache
       /\ cache_file' = save_cache(cache, cache_file, io)
       /\ obs' = [op |-> "record_alert", symbol |-> sym, signal_type |-> typ,
                  key |-> cache_key, t |-> now, ret |-> 0,
                  io_error |-> io # "ok"]
       /\ recorded' = [recorded EXCEPT ![Canon(sym, typ)] =
                          [t |-> now, candle |-> cdl, key |-> cache_key,
                           inst |-> TRUE]]
       /\ UNCHANGED load_failed

\* deduplication.py:166  if current_time - timestamp >= self.cooldown_seconds
Expired_any_age(current_time, timestamp) ==
    current_time - timestamp >= 0
Expired_strict(current_time, timestamp) ==
    current_time - timestamp > cooldown_seconds
Expired(current_time, timestamp) ==
    current_time - timestamp >= cooldown_seconds

\* deduplication.py:152-179  cleanup_expired
cleanup_expired(io) ==
    LET expired_keys == {k \in DOMAIN alert_cache : Expired(now, alert_cache[k])}
        cache == DictDel(alert_cache, expired_keys)
        cleaned_count == Cardinality(expired_keys)
    IN /\ alert_cache' = cache
       /\ cache_file' = IF cleaned_count > 0
                        THEN save_cache(cache, cache_file, io)
                        ELSE cache_file
       /\ obs' = [op |-> "cleanup_expired", symbol |-> <<>>,
                  signal_type |-> <<>>, key |-> <<>>, t |-> now,
                  ret |-> cleaned_count,
                  io_error |-> (cleaned_count > 0 /\ io # "ok")]
       /\ UNCHANGED <<load_failed, recorded>>

\* deduplication.py:211-231  force_reset_cooldown
force_reset_cooldown(sym, typ, io) ==
    LET cache_key == get_cache_key(sym, typ)
        present == cache_key \in DOMAIN alert_cache
        cache == DictDel(alert_cache, {cache_key})
    IN /\ alert_cache' = cache
       /\ cache_file' = IF present THEN save_cache(cache, cache_file, io)
                        ELSE cache_file
       /\ obs' = [op |-> "force_reset_cooldown", symbol |-> sym,
                  signal_type |-> typ, key |-> cache_key, t |-> now,
                  ret |-> present, io_error |-> (present /\ io # "ok")]
       /\ recorded' = [recorded EXCEPT ![Canon(sym, typ)] = NoRecord]
       /\ UNCHANGED load_failed

\* deduplication.py:29-52  __init__: a new AlertDeduplicator (a new process)
\* built from the cache file.
new_deduplicator(io) ==
    LET loaded == load_cache(cache_file, now, io)
    IN /\ alert_cache' = loaded.cache
       /\ load_failed' = loaded.failed
       /\ obs' = [op |-> "__init__", symbol |-> <<>>, signal_type |-> <<>>,
                  key |-> <<>>, t |-> now, ret |-> 0,
                  io_error |-> loaded.failed]
       /\ recorded' = [k \in Pairs |->
                          IF recorded[k] = NoRecord THEN NoRecord
                          ELSE [recorded[k] EXCEPT !.inst = FALSE]]
       /\ UNCHANGED cache_file

\* ------------------------------------------------------------------- clock
Tick ==
    /\ \E t \in ClockValues : t > now /\ now' = t
    /\ UNCHANGED <<alert_cache, cache_file, load_failed, pipeline_vars, obs,
                   recorded>>

\* ------------------------------------------- the deduplicator called freely
ApiIsDuplicate ==
    \E i \in Inputs :
        is_duplicate(i[1], i[2]) /\ UNCHANGED <<now, pipeline_vars>>

ApiRecordAlert ==
    \E i \in Inputs :
        record_alert(i[1], i[2], BucketStart(now), "ok")
        /\ UNCHANGED <<now, pipeline_vars>>

ApiCleanupExpired == cleanup_expired("ok") /\ UNCHANGED <<now, pipeline_vars>>

ApiForceReset ==
    \E i \in Inputs :
        force_reset_cooldown(i[1], i[2], "ok")
        /\ UNCHANGED <<now, pipeline_vars>>

ApiRestart == new_deduplicator("ok") /\ UNCHANGED <<now, pipeline_vars>>

NextApi ==
    \/ Tick /\ UNCHANGED aux_vars
    \/ ApiIsDuplicate /\ UNCHANGED aux_vars
    \/ ApiRecordAlert /\ UNCHANGED aux_vars
    \/ ApiCleanupExpired /\ UNCHANGED aux_vars
    \/ ApiForceReset /\ UNCHANGED aux_vars
    \/ ApiRestart /\ UNCHANGED aux_vars

SpecApi == Init /\ [][NextApi]_vars

\* ------------------------------------------- CryptoAlertSystem (main.py)
\* What the collaborators of one _process_single_coin call deliver.
OhlcvOutcomes == {"short", "ok", "raise"}
\* calculate_signals failed (None), an exception, or the latest row; a row
\* never has buySignal and sellSignal both (detect_cipherb_signals).
CipherOutcomes == {"failed", "raise", "none", "buy", "sell"}
\* StochRSIIndicator.calculate failed (None), or stoch_rsi_k of the latest
\* row: undefined (NaN) or a value k.
StochValues == {20, 21, 79, 80}
StochOutcomes ==
    {[state |-> "failed", k |-> 0], [state |-> "nan", k |-> 0]} \cup
    {[state |-> "value", k |-> k] : k \in StochValues}
SendOutcomes == {"sent", "failed", "raise"}

\* main.py:275  BUY threshold, main.py:277  SELL threshold
StochOversold == 20
StochOverbought == 80

\* main.py:255-261  the signal type read off the latest CipherB row
LatestCipherSignal(cipher) ==
    CASE cipher \in {"buy", "both"} -> BUY
      [] cipher = "sell" -> SELL
      [] OTHER -> <<>>

\* main.py:273-278  confirmation logic
Confirmed_any_value(typ, stoch) == stoch.state = "value"
Confirmed(typ, stoch) ==
    /\ stoch.state = "value"
    /\ \/ typ = BUY /\ stoch.k <= StochOversold
       \/ typ = SELL /\ stoch.k >= StochOverbought

\* main.py:234-286  the reason _process_single_coin returns early with, or
\* "detected" when it goes on to the deduplication check.
DetectReason(ohlcv, cipher, stoch) ==
    CASE ohlcv = "raise" -> "Processing error"
      [] ohlcv = "short" -> "Insufficient OHLCV data"
      [] cipher = "raise" -> "Processing error"
      [] cipher = "failed" -> "CipherB calculation failed"
      [] cipher = "none" -> "No CipherB signal"
      [] stoch.state = "failed" -> "Stochastic RSI calculation failed"
      [] ~Confirmed(LatestCipherSignal(cipher), stoch) ->
            "Stochastic RSI confirmation failed"
      [] OTHER -> "detected"

\* _process_single_coin returns: its locals go out of scope.
Return(p, res) ==
    /\ pc' = [pc EXCEPT ![p] = "idle"]
    /\ symbol' = [symbol EXCEPT ![p] = <<>>]
    /\ signal_type' = [signal_type EXCEPT ![p] = <<>>]
    /\ candle' = [candle EXCEPT ![p] = 0]
    /\ latest_stoch' = [latest_stoch EXCEPT ![p] = NoStoch]
    /\ success' = [success EXCEPT ![p] = ""]
    /\ result' = [result EXCEPT ![p] = res]

\* main.py:223-286  fetch, Heikin-Ashi, CipherB, Stochastic RSI confirmation
Detect(p, coin, ohlcv, cipher, stoch) ==
    LET reason == DetectReason(ohlcv, cipher, stoch)
    IN /\ pc[p] = "idle"
       /\ IF reason = "detected"
          THEN /\ pc' = [pc EXCEPT ![p] = "dedup"]
               /\ symbol' = [symbol EXCEPT ![p] = Upper(coin)]
               /\ signal_type' =
                      [signal_type EXCEPT ![p] = LatestCipherSignal(cipher)]
               /\ candle' = [candle EXCEPT ![p] = BucketStart(now)]
               /\ latest_stoch' = [latest_stoch EXCEPT ![p] = stoch]
               /\ success' = success
               /\ result' = [result EXCEPT ![p] =
                      [signal_detected |-> TRUE, alert_sent |-> FALSE]]
          ELSE Return(p, NoResult)
       /\ UNCHANGED <<now, alert_cache, cache_file, load_failed, obs, recorded>>

\* main.py:288-291  CHECK DEDUPLICATION
CheckDedup(p) ==
    /\ pc[p] = "dedup"
    /\ is_duplicate(symbol[p], signal_type[p])
    /\ IF obs'.ret
       THEN Return(p, result[p])
       ELSE /\ pc' = [pc EXCEPT ![p] = "send"]
            /\ UNCHANGED <<symbol, signal_type, candle, latest_stoch, success,
                           result>>
    /\ UNCHANGED now

\* main.py:312-314  success = send_signal_alert(alert_data); if success:
\* (an exception skips the branch)
send_succeeded_always(sent) == TRUE
send_succeeded(sent) == sent = "sent"

\* main.py:293-312, 320-327  SEND ALERT: the TradingView link and the Telegram
\* call; "raise" is an exception of either, caught at line 325.
SendAlert(p, sent) ==
    /\ pc[p] = "send"
    /\ IF send_succeeded(sent)
       THEN /\ pc' = [pc EXCEPT ![p] = "record"]
            /\ success' = [success EXCEPT ![p] = sent]
            /\ UNCHANGED <<symbol, signal_type, candle, latest_stoch, result>>
       ELSE Return(p, result[p])
    /\ UNCHANGED <<now, alert_cache, cache_file, load_failed, obs, recorded>>

\* main.py:314-323  success: record in the deduplication cache
RecordSent(p, io) ==
    /\ pc[p] = "record"
    /\ record_alert(symbol[p], signal_type[p], candle[p], io)
    /\ Return(p, [result[p] EXCEPT !.alert_sent = TRUE])
    /\ UNCHANGED now

\* main.py:374-386  main(): a new process builds a new CryptoAlertSystem
NewProcess(io) ==
    /\ \A p \in Procs : pc[p] = "idle"
    /\ new_deduplicator(io)
    /\ UNCHANGED <<now, pipeline_vars>>

\* One step of the pipeline run by caller p.
Pipeline(p, ios) ==
    \/ /\ \E coin \in Coins, ohlcv \in OhlcvOutcomes,
             cipher \in CipherOutcomes, stoch \in StochOutcomes :
             Detect(p, coin, ohlcv, cipher, stoch)
       /\ UNCHANGED aux_vars
    \/ CheckDedup(p) /\ UNCHANGED aux_vars
    \/ (\E sent \in SendOutcomes : SendAlert(p, sent)) /\ UNCHANGED aux_vars
    \/ (\E io \in ios : RecordSent(p, io)) /\ UNCHANGED aux_vars

\* The main pipeline: one caller, scan passes one after the other, processes
\* one after the other, a file system that works.
Next ==
    \/ Tick /\ UNCHANGED aux_vars
    \/ NewProcess("ok") /\ UNCHANGED aux_vars
    \/ Pipeline(1, {"ok"})

Spec == Init /\ [][Next]_vars

\* The main pipeline on a file system that may fail, and a cache file that
\* may be damaged from outside.
IoOutcomes == {"ok", "fail", "partial"}

DamageFile ==
    /\ cache_file.state = "ok"
    /\ cache_file' = [state |-> "corrupt", data |-> {}]
    /\ UNCHANGED <<now, alert_cache, load_failed, pipeline_vars, obs, recorded>>

NextFault ==
    \/ Tick /\ UNCHANGED aux_vars
    \/ \E io \in {"ok", "fail"} : NewProcess(io) /\ UNCHANGED aux_vars
    \/ DamageFile /\ UNCHANGED aux_vars
    \/ Pipeline(1, IoOutcomes)

SpecFault == Init /\ [][NextFault]_vars

\* Two callers of one deduplicator whose steps interleave.
NextConc ==
    \/ Tick /\ UNCHANGED aux_vars
    \/ \E p \in Procs : Pipeline(p, {"ok"})

SpecConc == Init /\ [][NextConc]_vars

\* ------------------------------------- detect_cipherb_signals (cipherb.py)
\* The longest WaveTrend series examined.
MaxSeries == 2

\* A float: NaN (the rolling mean before its window is full, the shifted
\* series at its first index, a division 0/0 in the oscillator), an
\* infinity (d = 0, v its sign), or the number v / d in lowest terms.
NaN == [nan |-> TRUE, v |-> 0, d |-> 1]
Num(n) == [nan |-> FALSE, v |-> n, d |-> 1]
Inf(sign) == [nan |-> FALSE, v |-> sign, d |-> 0]

Abs(n) == IF n < 0 THEN -n ELSE n
Sign(n) == IF n < 0 THEN -1 ELSE IF n > 0 THEN 1 ELSE 0
RECURSIVE Gcd(_, _)
Gcd(a, b) == IF b = 0 THEN a ELSE Gcd(b, a % b)

\* n / d for a denominator d > 0
Frac(n, d) ==
    LET g == Gcd(Abs(n), d)
    IN [nan |-> FALSE, v |-> n \div g, d |-> d \div g]

\* Comparisons as pandas makes them: False as soon as one side is NaN.
Le(a, b) ==
    /\ ~a.nan
    /\ ~b.nan
    /\ IF a.d = 0 /\ b.d = 0 THEN a.v <= b.v
       ELSE IF a.d = 0 THEN a.v < 0
       ELSE IF b.d = 0 THEN b.v > 0
       ELSE LET g == Gcd(a.d, b.d)
            IN a.v * (b.d \div g) <= b.v * (a.d \div g)
Eq(a, b) == ~a.nan /\ ~b.nan /\ a = b
Ge(a, b) == Le(b, a)
Lt(a, b) == Le(a, b) /\ ~Eq(a, b)
Gt(a, b) == Le(b, a) /\ ~Eq(a, b)

\* Arithmetic as numpy makes it on float64: no exception, NaN and the
\* infinities are results.
Neg(a) == IF a.nan THEN NaN ELSE [a EXCEPT !.v = -a.v]
Add(a, b) ==
    IF a.nan \/ b.nan THEN NaN
    ELSE IF a.d = 0 /\ b.d = 0 THEN (IF a.v = b.v THEN a ELSE NaN)
    ELSE IF a.d = 0 THEN a
    ELSE IF b.d = 0 THEN b
    ELSE LET g == Gcd(a.d, b.d)
         IN Frac(a.v * (b.d \div g) + b.v * (a.d \div g),
                 (a.d \div g) * b.d)
Sub(a, b) == Add(a, Neg(b))
Mul(a, b) ==
    IF a.nan \/ b.nan THEN NaN
    ELSE IF a.d = 0 \/ b.d = 0
    THEN (IF a.v = 0 \/ b.v = 0 THEN NaN ELSE Inf(Sign(a.v) * Sign(b.v)))
    ELSE LET g == Gcd(Abs(a.v), b.d)
             h == Gcd(Abs(b.v), a.d)
         IN Frac((a.v \div g) * (b.v \div h), (a.d \div h) * (b.d \div g))
Div_zero_by_zero_is_zero(a, b) ==
    IF a.nan \/ b.nan THEN NaN
    ELSE IF b.d = 0 THEN (IF a.d = 0 THEN NaN ELSE Num(0))
    ELSE IF b.v = 0 THEN (IF a.v = 0 THEN Num(0) ELSE Inf(Sign(a.v)))
    ELSE IF a.d = 0 THEN Inf(Sign(a.v) * Sign(b.v))
    ELSE LET g == Gcd(Abs(a.v), Abs(b.v))
             h == Gcd(a.d, b.d)
         IN Frac(Sign(b.v) * (a.v \div g) * (b.d \div h),
                 (a.d \div h) * (Abs(b.v) \div g))
Div(a, b) ==
    IF a.nan \/ b.nan THEN NaN
    ELSE IF b.d = 0 THEN (IF a.d = 0 THEN NaN ELSE Num(0))
    ELSE IF b.v = 0 THEN (IF a.v = 0 THEN NaN ELSE Inf(Sign(a.v)))
    ELSE IF a.d = 0 THEN Inf(Sign(a.v) * Sign(b.v))
    ELSE LET g == Gcd(Abs(a.v), Abs(b.v))
             h == Gcd(a.d, b.d)
         IN Frac(Sign(b.v) * (a.v \div g) * (b.d \div h),
                 (a.d \div h) * (Abs(b.v) \div g))

\* cipherb.py:104  wt1 <= -60, cipherb.py:107  wt2 >= 60
OversoldLevel == -60
OverboughtLevel == 60

\* The values a WaveTrend line takes in the model: around both levels, and
\* undefined.
WtValues == {Num(-61), Num(-60), Num(-59), Num(60), Num(61), NaN}
WtRows == [wt1 : WtValues, wt2 : WtValues]

\* Series.shift(1): the value one index earlier, NaN at the first index.
Shift(series, t) == IF t = 1 THEN NaN ELSE series[t - 1]

\* cipherb.py:92-93  ta.cross(wt1, wt2)
cross_any(wt1, wt2, t) ==
    \/ Le(Shift(wt1, t), Shift(wt2, t)) /\ Gt(wt1[t], wt2[t])
    \/ Ge(Shift(wt1, t), Shift(wt2, t)) /\ Lt(wt1[t], wt2[t])

\* cipherb.py:97  cross_any & (wt2 - wt1 <= 0)
cross_up(wt1, wt2, t) ==
    cross_any(wt1, wt2, t) /\ Le(Sub(wt2[t], wt1[t]), Num(0))

\* cipherb.py:100  cross_any & (wt2 - wt1 >= 0)
cross_down(wt1, wt2, t) ==
    cross_any(wt1, wt2, t) /\ Ge(Sub(wt2[t], wt1[t]), Num(0))

\* cipherb.py:104  (wt1 <= -60) & (wt2 <= -60)
oversold_current_either(wt1, wt2, t) ==
    Le(wt1[t], Num(OversoldLevel)) \/ Le(wt2[t], Num(OversoldLevel))
oversold_current(wt1, wt2, t) ==
    Le(wt1[t], Num(OversoldLevel)) /\ Le(wt2[t], Num(OversoldLevel))

\* cipherb.py:107  (wt2 >= 60) & (wt1 >= 60)
overbought_current(wt1, wt2, t) ==
    Ge(wt2[t], Num(OverboughtLevel)) /\ Ge(wt1[t], Num(OverboughtLevel))

\* cipherb.py:111-114  the two signal columns of one row
signal_columns_sell_copies_buy(cross, up, down, oversold, overbought) ==
    [buySignal |-> cross /\ up /\ oversold,
     sellSignal |-> cross /\ up /\ oversold]
signal_columns(cross, up, down, oversold, overbought) ==
    [buySignal |-> cross /\ up /\ oversold,
     sellSignal |-> cross /\ down /\ overbought]

\* cipherb.py:64-123  detect_cipherb_signals, from the WaveTrend lines on
detect_cipherb_signals(series) ==
    LET wt1 == [t \in DOMAIN series |-> series[t].wt1]
        wt2 == [t \in DOMAIN series |-> series[t].wt2]
    IN [t \in DOMAIN series |->
           LET cols == signal_columns(cross_any(wt1, wt2, t),
                                      cross_up(wt1, wt2, t),
                                      cross_down(wt1, wt2, t),
                                      oversold_current(wt1, wt2, t),
                                      overbought_current(wt1, wt2, t))
           IN [wt1 |-> wt1[t], wt2 |-> wt2[t],
               buySignal |-> cols.buySignal,
               sellSignal |-> cols.sellSignal,
               wtCross |-> cross_any(wt1, wt2, t),
               wtCrossUp |-> cross_up(wt1, wt2, t),
               wtCrossDown |-> cross_down(wt1, wt2, t),
               wtOversold |-> oversold_current(wt1, wt2, t),
               wtOverbought |-> overbought_current(wt1, wt2, t)]]

\* The indicator is given a WaveTrend series.
InitCipher ==
    /\ InitCore
    /\ wt_series \in UNION {[1..n -> WtRows] : n \in 1..MaxSeries}
    /\ signals_df = <<>>
    /\ NoFresh
    /\ NoHa
    /\ NoRun
    /\ NoDual
    /\ NoMore

DetectCipherbSignals ==
    /\ signals_df = <<>>
    /\ signals_df' = detect_cipherb_signals(wt_series)
    /\ UNCHANGED <<core_vars, wt_series, fresh_vars, ha_vars, run_vars,
                   dual_vars, more_vars>>

NextCipher == DetectCipherbSignals

SpecCipher == InitCipher /\ [][NextCipher]_vars

\* ------------------------------------------------- wavetrend (cipherb.py)
\* The most candles given to the oscillator.
MaxWaveCandles == 4

\* cipherb.py:29  the default periods of wavetrend
ChannelLen == 9
AverageLen == 12
MaLen == 3

\* The candles of the model: two flat ones and one with a range.
WaveCandles ==
    {[High |-> 1, Low |-> 1, Close |-> 1],
     [High |-> 2, Low |-> 2, Close |-> 2],
     [High |-> 3, Low |-> 1, Close |-> 2]}

\* pandas Series.ewm(alpha, adjust=False).mean(): the running average and
\* the weight of the old average after index t. A NaN before the first
\* number gives NaN; a NaN after it carries the average on and ages it; an
\* observation equal to the average leaves it as it is.
RECURSIVE ewm_state(_, _, _)
ewm_state(series, alpha, t) ==
    IF t = 1
    THEN [weighted |-> series[1], old_wt |-> Num(1)]
    ELSE LET prev == ewm_state(series, alpha, t - 1)
             cur == series[t]
             old_wt == Mul(prev.old_wt, Sub(Num(1), alpha))
         IN IF prev.weighted.nan
            THEN [weighted |-> cur, old_wt |-> prev.old_wt]
            ELSE IF cur.nan
            THEN [weighted |-> prev.weighted, old_wt |-> old_wt]
            ELSE IF prev.weighted = cur
            THEN [weighted |-> prev.weighted, old_wt |-> Num(1)]
            ELSE [weighted |-> Div(Add(Mul(old_wt, prev.weighted),
                                       Mul(alpha, cur)),
                                   Add(old_wt, alpha)),
                  old_wt |-> Num(1)]

ewm_mean(series, alpha) ==
    [t \in DOMAIN series |-> ewm_state(series, alpha, t).weighted]

\* cipherb.py:19-21  series.ewm(span=period, adjust=False).mean()
ema(series, period) == ewm_mean(series, Frac(2, period + 1))

RECURSIVE SumF(_, _, _)
SumF(series, from, to) ==
    IF from > to THEN Num(0)
    ELSE Add(series[from], SumF(series, from + 1, to))

\* cipherb.py:24-26  series.rolling(window=period).mean(): NaN until the
\* window holds period numbers
sma(series, period) ==
    [t \in DOMAIN series |->
        IF t < period \/ \E u \in (t - period + 1)..t : series[u].nan
        THEN NaN
        ELSE Div(SumF(series, t - period + 1, t), Num(period))]

AbsF(a) == IF a.nan THEN NaN ELSE [a EXCEPT !.v = Abs(a.v)]

\* cipherb.py:29-61  wavetrend: the rows [wt1, wt2]
wavetrend(candles, channel_len, average_len, ma_len) ==
    LET hlc3 == [t \in DOMAIN candles |->
                    Div(Num(candles[t].High + candles[t].Low
                            + candles[t].Close), Num(3))]
        esa == ema(hlc3, channel_len)
        de == ema([t \in DOMAIN candles |-> AbsF(Sub(hlc3[t], esa[t]))],
                  channel_len)
        ci == [t \in DOMAIN candles |->
                  Div(Sub(hlc3[t], esa[t]), Mul(Frac(15, 1000), de[t]))]
        wt1 == ema(ci, average_len)
        wt2 == sma(wt1, ma_len)
    IN [t \in DOMAIN candles |-> [wt1 |-> wt1[t], wt2 |-> wt2[t]]]

\* The oscillator is given candles.
InitWave ==
    /\ InitCore
    /\ NoCipher
    /\ NoFresh
    /\ NoHa
    /\ NoRun
    /\ NoDual
    /\ src \in UNION {[1..n -> WaveCandles] : n \in 1..MaxWaveCandles}
    /\ wave_df = [called |-> FALSE, rows |-> <<>>]
    /\ NoStochRsi
    /\ NoIndicator
    /\ NoGate

\* cipherb.py:64-123  detect_cipherb_signals(ha_data), wavetrend included
WaveTrendSignals ==
    /\ ~wave_df.called
    /\ wave_df' =
           [called |-> TRUE,
            rows |-> detect_cipherb_signals(
                         wavetrend(src, ChannelLen, AverageLen, MaLen))]
    /\ UNCHANGED <<core_vars, cipher_vars, fresh_vars, ha_vars, run_vars,
                   dual_vars, src, stoch_vars, ind_vars, gate_vars>>

NextWave == WaveTrendSignals

SpecWave == InitWave /\ [][NextWave]_vars

\* ------------------ Stochastic RSI (stoch_rsi.py and stochrsi_3h.py)
\* The longest price series and the longest period examined.
MaxPrices == 4
MaxPeriod == 2

\* stoch_rsi.py:76-77, stochrsi_3h.py:23  k_period=3, d_period=3
KPeriod == 3
DPeriod == 3

ClosePrices == {1, 2, 3}

\* Series.diff(): NaN at the first index
diff(series) ==
    [t \in DOMAIN series |->
        IF t = 1 THEN NaN ELSE Sub(series[t], series[t - 1])]

\* stoch_rsi.py:34  delta.where(delta > 0, 0)
gain(delta) ==
    [t \in DOMAIN delta |-> IF Gt(delta[t], Num(0)) THEN delta[t] ELSE Num(0)]

\* stoch_rsi.py:35  -delta.where(delta < 0, 0)
loss(delta) ==
    [t \in DOMAIN delta |->
        Neg(IF Lt(delta[t], Num(0)) THEN delta[t] ELSE Num(0))]

\* Series.replace(0, np.inf)
replace_zero_inf(series) ==
    [t \in DOMAIN series |->
        IF Eq(series[t], Num(0)) THEN Inf(1) ELSE series[t]]

\* stoch_rsi.py:41, stochrsi_3h.py:19  100 - (100 / (1 + rs))
rsi_of_rs(rs) ==
    [t \in DOMAIN rs |->
        Sub(Num(100), Div(Num(100), Add(Num(1), rs[t])))]

\* stoch_rsi.py:21-44  rsi
rsi(series, period) ==
    LET delta == diff(series)
        avg_gain == sma(gain(delta), period)
        avg_loss == sma(loss(delta), period)
        rs == [t \in DOMAIN series |->
                  Div(avg_gain[t], replace_zero_inf(avg_loss)[t])]
    IN rsi_of_rs(rs)

\* The least and the greatest of the numbers series[from..to]
RECURSIVE MinF(_, _, _)
MinF(series, from, to) ==
    IF from = to THEN series[from]
    ELSE LET rest == MinF(series, from + 1, to)
         IN IF Le(series[from], rest) THEN series[from] ELSE rest
RECURSIVE MaxF(_, _, _)
MaxF(series, from, to) ==
    IF from = to THEN series[from]
    ELSE LET rest == MaxF(series, from + 1, to)
         IN IF Ge(series[from], rest) THEN series[from] ELSE rest

\* series.rolling(window=period).min() and .max(): NaN until the window
\* holds period numbers
rolling_min(series, period) ==
    [t \in DOMAIN series |->
        IF t < period \/ \E u \in (t - period + 1)..t : series[u].nan
        THEN NaN
        ELSE MinF(series, t - period + 1, t)]
rolling_max(series, period) ==
    [t \in DOMAIN series |->
        IF t < period \/ \E u \in (t - period + 1)..t : series[u].nan
        THEN NaN
        ELSE MaxF(series, t - period + 1, t)]

\* stoch_rsi.py:47-70  stochastic
stochastic(high_series, low_series, close_series, period) ==
    LET lowest_low == rolling_min(low_series, period)
        highest_high == rolling_max(high_series, period)
        denominator ==
            replace_zero_inf([t \in DOMAIN close_series |->
                                 Sub(highest_high[t], lowest_low[t])])
    IN [t \in DOMAIN close_series |->
           Mul(Div(Sub(close_series[t], lowest_low[t]), denominator[t]),
               Num(100))]

\* stoch_rsi.py:73-112  stochastic_rsi
stochastic_rsi(price_series, rsi_period, stoch_period, k_period, d_period) ==
    LET rsi_values == rsi(price_series, rsi_period)
        stoch_k_raw == stochastic(rsi_values, rsi_values, rsi_values,
                                  stoch_period)
        stoch_rsi_k == sma(stoch_k_raw, k_period)
        stoch_rsi_d == sma(stoch_rsi_k, d_period)
    IN [called |-> TRUE, stoch_k_raw |-> stoch_k_raw,
        stoch_rsi_k |-> stoch_rsi_k, stoch_rsi_d |-> stoch_rsi_d,
        rsi |-> rsi_values]

\* stochrsi_3h.py:9-21  calculate_rsi; ewm(com=period-1) has
\* alpha = 1 / period
calculate_rsi(close, period) ==
    LET delta == diff(close)
        avg_gain == ewm_mean(gain(delta), Frac(1, period))
        avg_loss == ewm_mean(loss(delta), Frac(1, period))
        rs == [t \in DOMAIN close |-> Div(avg_gain[t], avg_loss[t])]
    IN rsi_of_rs(rs)

\* stochrsi_3h.py:36-37  np.where(rsi_range != 0, (rsi - min_rsi) /
\* rsi_range, 0); NaN != 0 is True
stoch_where_range_midpoint(rsi_range, rsi_value, min_rsi) ==
    IF Eq(rsi_range, Num(0)) THEN Frac(1, 2)
    ELSE Div(Sub(rsi_value, min_rsi), rsi_range)
stoch_where_range(rsi_range, rsi_value, min_rsi) ==
    IF Eq(rsi_range, Num(0)) THEN Num(0)
    ELSE Div(Sub(rsi_value, min_rsi), rsi_range)

\* stochrsi_3h.py:23-44  calculate_stochastic_rsi
calculate_stochastic_rsi(close, rsi_period, stoch_period, smooth_k, smooth_d) ==
    LET rsi_values == calculate_rsi(close, rsi_period)
        min_rsi == rolling_min(rsi_values, stoch_period)
        max_rsi == rolling_max(rsi_values, stoch_period)
        stoch_rsi == [t \in DOMAIN close |->
                         stoch_where_range(Sub(max_rsi[t], min_rsi[t]),
                                           rsi_values[t], min_rsi[t])]
        k_line == [t \in DOMAIN close |->
                      Mul(sma(stoch_rsi, smooth_k)[t], Num(100))]
        d_line == sma(k_line, smooth_d)
    IN [called |-> TRUE, rsi |-> rsi_values, stoch_rsi |-> stoch_rsi,
        k_line |-> k_line, d_line |-> d_line]

\* Both are given a price series and their periods.
InitStoch ==
    /\ InitCore
    /\ NoCipher
    /\ NoFresh
    /\ NoHa
    /\ NoRun
    /\ NoDual
    /\ NoWave
    /\ close_prices \in
           UNION {[1..n -> {Num(c) : c \in ClosePrices}] : n \in 1..MaxPrices}
    /\ periods \in [rsi_period : 1..MaxPeriod, stoch_period : 1..MaxPeriod]
    /\ stoch_rsi_out = [called |-> FALSE]
    /\ stoch_3h_out = [called |-> FALSE]
    /\ NoIndicator
    /\ NoGate

StochasticRsi ==
    /\ ~stoch_rsi_out.called
    /\ stoch_rsi_out' = stochastic_rsi(close_prices, periods.rsi_period,
                                       periods.stoch_period, KPeriod, DPeriod)
    /\ UNCHANGED <<core_vars, cipher_vars, fresh_vars, ha_vars, run_vars,
                   dual_vars, wave_vars, close_prices, periods, stoch_3h_out,
                   ind_vars, gate_vars>>

CalculateStochasticRsi ==
    /\ ~stoch_3h_out.called
    /\ stoch_3h_out' =
           calculate_stochastic_rsi(close_prices, periods.rsi_period,
                                    periods.stoch_period, KPeriod, DPeriod)
    /\ UNCHANGED <<core_vars, cipher_vars, fresh_vars, ha_vars, run_vars,
                   dual_vars, wave_vars, close_prices, periods, stoch_rsi_out,
                   ind_vars, gate_vars>>

NextStoch ==
    \/ StochasticRsi
    \/ CalculateStochasticRsi

SpecStoch == InitStoch /\ [][NextStoch]_vars


\* --------------- ProfessionalAnalyzer.is_new_4h_candle (professional_analyzer.py)
\* The days the datetimes examined span: 0 .. MaxDays.
MaxDays == 1

\* professional_analyzer.py:108  (hour // 4) * 4: hours in a candle
CandleHours == 4
\* professional_analyzer.py:123  timedelta(minutes=15)
FreshnessMinutes == 15

\* The datetimes examined: around the open and the close of the first, the
\* second and the last 4h candle of a day, and around the freshness limit.
DateTimes ==
    {[day |-> d, hour |-> h, minute |-> ms[1], second |-> ms[2]] :
        d \in 0..MaxDays, h \in {0, 3, 4, 23},
        ms \in {<<0, 0>>, <<15, 0>>, <<15, 1>>, <<59, 59>>}}

\* The seconds from day 0, 00:00:00 to a datetime (datetime subtraction).
TotalSeconds(dt) ==
    ((dt.day * 24 + dt.hour) * 60 + dt.minute) * 60 + dt.second

\* professional_analyzer.py:107-108, 118-119  the open of the 4h candle a
\* datetime lies in: replace(minute=0, second=0, microsecond=0), then
\* replace(hour=(hour // 4) * 4)
candle_4h_start(dt) ==
    LET top == [dt EXCEPT !.minute = 0, !.second = 0]
    IN [top EXCEPT !.hour = (top.hour \div CandleHours) * CandleHours]

\* professional_analyzer.py:123  time_since_4h_open <= timedelta(minutes=15)
is_fresh_signal_strict(time_since_4h_open) ==
    time_since_4h_open < FreshnessMinutes * 60
is_fresh_signal(time_since_4h_open) ==
    time_since_4h_open <= FreshnessMinutes * 60

\* professional_analyzer.py:99-134  is_new_4h_candle
is_new_4h_candle(current_time, signal_timestamp) ==
    LET current_4h_start == candle_4h_start(current_time)
        time_since_4h_open ==
            TotalSeconds(current_time) - TotalSeconds(current_4h_start)
        signal_4h_start == candle_4h_start(signal_timestamp)
        is_current_candle == signal_4h_start = current_4h_start
    IN IF ~is_current_candle THEN FALSE
       ELSE IF ~is_fresh_signal(time_since_4h_open) THEN FALSE
       ELSE TRUE

\* A signal timestamp is about to be checked at some current time.
InitFresh ==
    /\ InitCore
    /\ NoCipher
    /\ clock_4h \in [current_time : DateTimes, signal_timestamp : DateTimes]
    /\ is_new = [called |-> FALSE, ret |-> FALSE]
    /\ NoHa
    /\ NoRun
    /\ NoDual
    /\ NoMore

IsNew4hCandle ==
    /\ ~is_new.called
    /\ is_new' = [called |-> TRUE,
                  ret |-> is_new_4h_candle(clock_4h.current_time,
                                           clock_4h.signal_timestamp)]
    /\ UNCHANGED <<core_vars, cipher_vars, clock_4h, ha_vars, run_vars,
                   dual_vars, more_vars>>

NextFresh == IsNew4hCandle

SpecFresh == InitFresh /\ [][NextFresh]_vars

\* ------- the new-candle gate in a scan (professional_analyzer.py:136-215)
\* professional_analyzer.py:155  pd.Timedelta(hours=5, minutes=30)
IndexShiftMinutes == 330

\* The datetime n seconds after day 0, 00:00:00 (datetime addition).
FromSeconds(n) ==
    [day |-> n \div 86400, hour |-> (n % 86400) \div 3600,
     minute |-> (n % 3600) \div 60, second |-> n % 60]
AddSeconds(dt, n) == FromSeconds(TotalSeconds(dt) + n)

\* The opens of the 4h candles the exchange delivers, in UTC.
CandleOpens ==
    {[day |-> d, hour |-> h, minute |-> 0, second |-> 0] :
        d \in 0..MaxDays, h \in {0, 4, 8, 12, 16, 20}}

\* The seconds from the open of the latest candle to the scan.
ScanDelays == {0, 60, 900, 901}

\* datetime.now() is the clock of the host: UTC, or IST (UTC+5:30).
HostOffsets == {0, 330}

\* professional_analyzer.py:148-155  the index of the DataFrame: the open
\* of the candle, shifted
shifted_index(candle_open) == AddSeconds(candle_open, IndexShiftMinutes * 60)

\* A scan runs some time after the latest candle opened.
InitGate ==
    /\ InitCore
    /\ NoCipher
    /\ NoFresh
    /\ NoHa
    /\ NoRun
    /\ NoDual
    /\ NoWave
    /\ NoStochRsi
    /\ NoIndicator
    /\ scan_4h \in [candle_open : CandleOpens, delay : ScanDelays,
                    utc_offset : HostOffsets]
    /\ gate = [called |-> FALSE, latest_timestamp |-> Midnight,
               current_time |-> Midnight, ret |-> FALSE]

\* professional_analyzer.py:208-215  latest_timestamp =
\* cipherb_signals.index[-1]; is_new_4h_candle(latest_timestamp)
NewCandleGate ==
    /\ ~gate.called
    /\ LET latest_timestamp == shifted_index(scan_4h.candle_open)
           current_time == AddSeconds(scan_4h.candle_open,
                               scan_4h.delay + scan_4h.utc_offset * 60)
       IN gate' = [called |-> TRUE, latest_timestamp |-> latest_timestamp,
                   current_time |-> current_time,
                   ret |-> is_new_4h_candle(current_time, latest_timestamp)]
    /\ UNCHANGED <<core_vars, cipher_vars, fresh_vars, ha_vars, run_vars,
                   dual_vars, wave_vars, stoch_vars, ind_vars, scan_4h>>

NextGate == NewCandleGate

SpecGate == InitGate /\ [][NextGate]_vars


\* ------------------------------------------- heikin_ashi (heikin_ashi.py)
\* The longest candle sequence converted.
MaxCandles == 2

\* The prices of the candles converted.
Prices == {1, 2}
Candles == [Open : Prices, High : Prices, Low : Prices, Close : Prices]

RECURSIVE Pow2(_)
Pow2(n) == IF n = 0 THEN 1 ELSE 2 * Pow2(n - 1)

\* The Heikin-Ashi prices are binary fractions: a price x is held as the
\* integer x * HaUnit, which makes every division of the conversion exact, as
\* it is in floating point.
HaUnit == Pow2(MaxCandles + 2)

Max3(a, b, c) ==
    IF a >= b /\ a >= c THEN a ELSE IF b >= c THEN b ELSE c
Min3(a, b, c) ==
    IF a <= b /\ a <= c THEN a ELSE IF b <= c THEN b ELSE c

\* heikin_ashi.py:45  (Open + High + Low + Close) / 4
ha_close(c) == ((c.Open + c.High + c.Low + c.Close) * HaUnit) \div 4

\* heikin_ashi.py:58-60  (previous HA Open + previous HA Close) / 2
ha_open_step_prev_close(prev_open, prev_close) == prev_close
ha_open_step(prev_open, prev_close) == (prev_open + prev_close) \div 2

\* heikin_ashi.py:48-60  the HA Open column up to index i
RECURSIVE ha_open(_, _)
ha_open(candles, i) ==
    IF i = 1
    THEN ((candles[1].Open + candles[1].Close) * HaUnit) \div 2
    ELSE ha_open_step(ha_open(candles, i - 1), ha_close(candles[i - 1]))

\* heikin_ashi.py:16-80  heikin_ashi
heikin_ashi(candles) ==
    IF candles = <<>>
    THEN [called |-> TRUE, raised |-> TRUE, rows |-> <<>>]
    ELSE [called |-> TRUE, raised |-> FALSE,
          rows |-> [i \in DOMAIN candles |->
              LET o == ha_open(candles, i)
                  c == ha_close(candles[i])
              IN [Open |-> o, Close |-> c,
                  High |-> Max3(o, c, candles[i].High * HaUnit),
                  Low |-> Min3(o, c, candles[i].Low * HaUnit)]]]

\* A candle sequence is about to be converted.
InitHa ==
    /\ InitCore
    /\ NoCipher
    /\ NoFresh
    /\ df \in UNION {[1..n -> Candles] : n \in 0..MaxCandles}
    /\ ha_df = [called |-> FALSE, raised |-> FALSE, rows |-> <<>>]
    /\ NoRun
    /\ NoDual
    /\ NoMore

HeikinAshi ==
    /\ ~ha_df.called
    /\ ha_df' = heikin_ashi(df)
    /\ UNCHANGED <<core_vars, cipher_vars, fresh_vars, df, run_vars, dual_vars,
                   more_vars>>

NextHa == HeikinAshi

SpecHa == InitHa /\ [][NextHa]_vars

\* ------------------------------------------- CipherBIndicator (cipherb.py)
\* cipherb.py:134-139  the defaults of __init__
DefaultIndicator ==
    [wt_channel_len |-> ChannelLen, wt_average_len |-> AverageLen,
     wt_ma_len |-> MaLen, oversold_level |-> OversoldLevel,
     overbought_level |-> OverboughtLevel]

\* The indicators built in the model: the default one, one with narrower
\* zones, one with a longer average.
Indicators ==
    {DefaultIndicator,
     [DefaultIndicator EXCEPT !.oversold_level = OversoldLevel - 1,
                              !.overbought_level = OverboughtLevel + 1],
     [DefaultIndicator EXCEPT !.wt_average_len = AverageLen + 1]}

\* cipherb.py:174  max(wt_channel_len, wt_average_len, wt_ma_len) + 10
min_periods(ind) ==
    Max3(ind.wt_channel_len, ind.wt_average_len, ind.wt_ma_len) + 10

\* The candles given: around the least counts the indicators accept; the
\* WaveTrend lines of the last candles (undefined before them) around both
\* zones.
HaLengths ==
    {min_periods(ind) - 1 : ind \in Indicators}
        \cup {min_periods(ind) : ind \in Indicators}
IndWtValues == {Num(-61), Num(-60), Num(60), Num(61)}
IndWtRows == [wt1 : IndWtValues, wt2 : IndWtValues]

\* cipherb.py:157-186  calculate_signals: None for too few candles,
\* otherwise detect_cipherb_signals(ha_data), which is given neither the
\* periods nor the levels of the indicator
calculate_signals(ind, data) ==
    IF data.len < min_periods(ind)
    THEN [called |-> TRUE, none |-> TRUE, rows |-> <<>>]
    ELSE [called |-> TRUE, none |-> FALSE,
          rows |-> detect_cipherb_signals(data.wt)]

\* An indicator is built and given candles.
InitIndicator ==
    /\ InitCore
    /\ NoCipher
    /\ NoFresh
    /\ NoHa
    /\ NoRun
    /\ NoDual
    /\ NoWave
    /\ NoStochRsi
    /\ NoGate
    /\ indicator \in Indicators
    /\ ha_data \in [len : HaLengths,
                    wt : UNION {[1..n -> IndWtRows] : n \in 1..MaxSeries}]
    /\ ind_signals = [called |-> FALSE, none |-> FALSE, rows |-> <<>>]

CalculateSignals ==
    /\ ~ind_signals.called
    /\ ind_signals' = calculate_signals(indicator, ha_data)
    /\ UNCHANGED <<core_vars, cipher_vars, fresh_vars, ha_vars, run_vars,
                   dual_vars, wave_vars, stoch_vars, gate_vars, indicator,
                   ha_data>>

NextIndicator == CalculateSignals

SpecIndicator == InitIndicator /\ [][NextIndicator]_vars


\* ----------------------- CryptoAlertSystem.run_signal_detection (main.py)
\* The most coins the two lists of a run hold together.
MaxCoins == 3

\* A coin of the cached lists: its 'symbol' is a string, or null (then
\* coin_data.get('symbol', '').upper() raises at main.py:223).
CoinData ==
    {[has_symbol |-> TRUE, symbol |-> c] : c \in Coins} \cup
    {[has_symbol |-> FALSE, symbol |-> <<>>]}
CoinLists == UNION {[1..n -> CoinData] : n \in 0..MaxCoins}

\* The reasons _process_single_coin returns with when the processing of the
\* coin failed: no or too little data, a malformed candle or another
\* exception, an indicator that could not be computed.
FailureReasons ==
    {"Processing error", "Insufficient OHLCV data",
     "CipherB calculation failed", "Stochastic RSI calculation failed"}

\* main.py:189  the loop of _process_coin_category has a coin left
InLoop == run_pc \in Categories /\ scan.i <= Len(filtered_coins[run_pc])
CurrentCoin == filtered_coins[run_pc][scan.i]

\* main.py:199-202  except: errors += 1 ... continue: the position the loop
\* goes on with (i: the position of the coin that raised, n: the length)
index_after_error_break(i, n) == n + 1
index_after_error(i, n) == i + 1

\* main.py:191-197  a call of _process_single_coin returned res: the counters
\* after it; failed is 1 when the processing of the coin failed
Counted(sc, res, failed) ==
    [sc EXCEPT !.i = @ + 1,
               !.signals_found = @ + (IF res.signal_detected THEN 1 ELSE 0),
               !.alerts_sent = @ + (IF res.alert_sent THEN 1 ELSE 0),
               !.failed = IF failed THEN @ \cup {sc.i} ELSE @]

\* main.py:134-138  the coin lists are loaded and the run begins with the
\* standard coins
StartRun ==
    /\ run_pc = "idle"
    /\ \E std \in CoinLists, hr \in CoinLists :
          /\ Len(std) + Len(hr) <= MaxCoins
          /\ filtered_coins' = [c \in Categories |->
                                   IF c = "standard" THEN std ELSE hr]
    /\ run_pc' = "standard"
    /\ scan' = NewScan
    /\ results' = [c \in Categories |-> NoCategoryResult]
    /\ UNCHANGED core_vars

\* main.py:189-202, 223  the call for a coin whose symbol is null raises
\* before the try of _process_single_coin; the loop counts an error
RunBadCoin ==
    /\ InLoop
    /\ pc[1] = "idle"
    /\ ~CurrentCoin.has_symbol
    /\ scan' = [scan EXCEPT
                   !.i = index_after_error(scan.i, Len(filtered_coins[run_pc])),
                   !.errors = @ + 1,
                   !.attempted = Append(@, CurrentCoin),
                   !.failed = @ \cup {scan.i}]
    /\ UNCHANGED <<core_vars, run_pc, filtered_coins, results>>

\* main.py:191, 223-286  the call of _process_single_coin for the next coin
RunDetect ==
    /\ InLoop
    /\ CurrentCoin.has_symbol
    /\ \E ohlcv \in OhlcvOutcomes, cipher \in CipherOutcomes,
          stoch \in StochOutcomes :
          /\ Detect(1, CurrentCoin.symbol, ohlcv, cipher, stoch)
          /\ LET called == [scan EXCEPT !.attempted = Append(@, CurrentCoin)]
                 failed == DetectReason(ohlcv, cipher, stoch) \in FailureReasons
             IN scan' = IF pc'[1] = "idle"
                        THEN Counted(called, result'[1], failed)
                        ELSE called
    /\ UNCHANGED <<run_pc, filtered_coins, results>>

\* main.py:288-291, 193-197
RunCheckDedup ==
    /\ InLoop
    /\ CheckDedup(1)
    /\ scan' = IF pc'[1] = "idle" THEN Counted(scan, result'[1], FALSE)
               ELSE scan
    /\ UNCHANGED <<run_pc, filtered_coins, results>>

\* main.py:293-312, 193-197
RunSendAlert ==
    /\ InLoop
    /\ \E sent \in SendOutcomes : SendAlert(1, sent)
    /\ scan' = IF pc'[1] = "idle" THEN Counted(scan, result'[1], FALSE)
               ELSE scan
    /\ UNCHANGED <<run_pc, filtered_coins, results>>

\* main.py:314-323, 193-197
RunRecordSent ==
    /\ InLoop
    /\ RecordSent(1, "ok")
    /\ scan' = Counted(scan, result'[1], FALSE)
    /\ UNCHANGED <<run_pc, filtered_coins, results>>

\* main.py:180-181, 204-209  _process_coin_category returns; after the
\* standard coins the high-risk coins follow, after those
\* run_signal_detection returns (main.py:146-160)
ReturnCategory ==
    /\ run_pc \in Categories
    /\ pc[1] = "idle"
    /\ ~InLoop
    /\ results' = [results EXCEPT ![run_pc] =
          IF filtered_coins[run_pc] = <<>>
          THEN [NoCategoryResult EXCEPT !.returned = TRUE]
          ELSE [returned |-> TRUE,
                coins_processed |-> Len(filtered_coins[run_pc]),
                signals_found |-> scan.signals_found,
                alerts_sent |-> scan.alerts_sent,
                has_errors |-> TRUE,
                errors |-> scan.errors,
                attempted |-> scan.attempted,
                failed |-> scan.failed]]
    /\ run_pc' = IF run_pc = "standard" THEN "high_risk" ELSE "done"
    /\ scan' = NewScan
    /\ UNCHANGED <<core_vars, filtered_coins>>

\* main.py:365-388  the process ends with its run; the next one builds a new
\* CryptoAlertSystem
NextProcessRun ==
    /\ run_pc = "done"
    /\ NewProcess("ok")
    /\ run_pc' = "idle"
    /\ filtered_coins' = [c \in Categories |-> <<>>]
    /\ scan' = NewScan
    /\ results' = [c \in Categories |-> NoCategoryResult]

NextRun ==
    \/ StartRun /\ UNCHANGED run_others
    \/ RunBadCoin /\ UNCHANGED run_others
    \/ RunDetect /\ UNCHANGED run_others
    \/ RunCheckDedup /\ UNCHANGED run_others
    \/ RunSendAlert /\ UNCHANGED run_others
    \/ RunRecordSent /\ UNCHANGED run_others
    \/ ReturnCategory /\ UNCHANGED run_others
    \/ NextProcessRun /\ UNCHANGED run_others

SpecRun == Init /\ [][NextRun]_vars


\* ------------------ DualConfirmationAnalyzer (analyzer/dual_confirmation.py)
\* The most coins market_data holds.
MaxDualCoins == 2

\* dual_confirmation.py:167  oversold=30, overbought=70
DOversold == 30
DOverbought == 70

\* What the collaborators of one analyze_coin_dual_confirmation call deliver:
\* fetch_ohlcv_data (None, or a DataFrame); detect_exact_cipherb_signals (an
\* exception, an empty frame, or the latest row); is_signal_fresh_and_new
\* (True, False, or an exception); calculate_stochastic_rsi (an exception,
\* or the latest %D: NaN or a number).
FetchOutcomes == {"none", "ok"}
CipherExactOutcomes == {"raise", "empty", "none", "buy", "sell"}
FreshAndNewOutcomes == {"new", "seen", "raise"}
DValues == {30, 31, 69, 70}
DLineOutcomes ==
    {[state |-> "raise", d |-> 0], [state |-> "nan", d |-> 0]} \cup
    {[state |-> "value", d |-> d] : d \in DValues}

\* stochrsi_3h.py:46-65  check_stochrsi_confirmation: (confirmed, latest_d)
check_stochrsi_confirmation_any_zone(d_line, typ, oversold, overbought) ==
    IF d_line.state = "nan"
    THEN [confirmed |-> FALSE, latest_d |-> NoValue]
    ELSE [confirmed |-> d_line.d <= oversold \/ d_line.d >= overbought,
          latest_d |-> [has |-> TRUE, v |-> d_line.d]]
check_stochrsi_confirmation(d_line, typ, oversold, overbought) ==
    IF d_line.state = "nan"
    THEN [confirmed |-> FALSE, latest_d |-> NoValue]
    ELSE IF typ = BUY
    THEN [confirmed |-> d_line.d <= oversold,
          latest_d |-> [has |-> TRUE, v |-> d_line.d]]
    ELSE IF typ = SELL
    THEN [confirmed |-> d_line.d >= overbought,
          latest_d |-> [has |-> TRUE, v |-> d_line.d]]
    ELSE [confirmed |-> FALSE, latest_d |-> [has |-> TRUE, v |-> d_line.d]]

\* dual_confirmation.py:106-209  analyze_coin_dual_confirmation: whether it
\* returns a signal, the signal, and the collaborators it called, in order
analyze_coin_dual_confirmation(coin, got_15m, cipher, is_new_sig, got_3h, d) ==
    LET sym == Upper(coin)
        typ == IF cipher = "buy" THEN BUY
               ELSE IF cipher = "sell" THEN SELL ELSE <<>>
        None(log) == [has |-> FALSE, signal |-> NoSignal, log |-> log]
        Signal(status, d_value, log) ==
            [has |-> TRUE,
             signal |-> [symbol |-> sym, signal_type |-> typ,
                         stochrsi_status |-> status,
                         stochrsi_d_value |-> d_value],
             log |-> log]
        to_detector == <<"fetch_15m", "detector">>
        to_dedup == to_detector \o <<"dedup">>
        to_fetch_3h == to_dedup \o <<"fetch_3h">>
        to_confirmation == to_fetch_3h \o <<"confirmation">>
        check == check_stochrsi_confirmation(d, typ, DOversold,
                                             DOverbought)
    IN IF got_15m = "none" THEN None(<<"fetch_15m">>)
       ELSE IF cipher \in {"raise", "empty", "none"} THEN None(to_detector)
       ELSE IF is_new_sig # "new" THEN None(to_dedup)
       ELSE IF got_3h = "none"
       THEN Signal("unavailable", NoValue, to_fetch_3h)
       ELSE IF d.state = "raise"
       THEN Signal("calc_error", NoValue, to_confirmation)
       ELSE IF check.confirmed
       THEN Signal("confirmed", check.latest_d, to_confirmation)
       \* "rejected": the print at line 175 formats stochrsi_d_value with
       \* .1f, which raises for None; the except at line 178 then sets
       \* calc_error and the signal is returned.
       ELSE IF ~check.latest_d.has
       THEN Signal("calc_error", check.latest_d, to_confirmation)
       ELSE None(to_confirmation)

\* dual_confirmation.py:215-231  the run begins; without market data it
\* returns at once, otherwise it cleans the deduplicator and enters the loop
DualStart ==
    /\ dual_pc = "idle"
    /\ \E data \in UNION {[1..n -> Coins] : n \in 0..MaxDualCoins} :
          /\ market_data' = data
          /\ dual_pc' = IF data = <<>> THEN "done" ELSE "loop"
          /\ dual_calls' = IF data = <<>> THEN <<>>
                           ELSE <<"cleanup_old_signals">>
    /\ dual_i' = 1
    /\ confirmed_signals' = <<>>
    /\ last_analysis' = NoAnalysis
    /\ UNCHANGED <<core_vars, cipher_vars, fresh_vars, ha_vars, run_vars,
                   more_vars>>

\* dual_confirmation.py:238-258  the loop body for the next coin; after the
\* last coin the alerts follow
DualAnalyzeCoin ==
    /\ dual_pc = "loop"
    /\ \E fetch_15m \in FetchOutcomes, cipher \in CipherExactOutcomes,
          fresh_new \in FreshAndNewOutcomes, fetch_3h \in FetchOutcomes,
          d_line \in DLineOutcomes :
          LET a == analyze_coin_dual_confirmation(market_data[dual_i],
                       fetch_15m, cipher, fresh_new, fetch_3h, d_line)
              reached_3h == Len(a.log) >= 4
              reached_check == Len(a.log) >= 5
          IN /\ last_analysis' =
                    [called |-> TRUE,
                     fetch_3h |-> IF reached_3h THEN fetch_3h ELSE "",
                     d_line |-> IF reached_check THEN d_line
                                ELSE [state |-> "", d |-> 0],
                     log |-> a.log, has |-> a.has, signal |-> a.signal]
             /\ confirmed_signals' = IF a.has
                                     THEN Append(confirmed_signals, a.signal)
                                     ELSE confirmed_signals
    /\ dual_i' = dual_i + 1
    /\ dual_pc' = IF dual_i = Len(market_data) THEN "send" ELSE "loop"
    /\ UNCHANGED <<market_data, dual_calls>>
    /\ UNCHANGED <<core_vars, cipher_vars, fresh_vars, ha_vars, run_vars,
                   more_vars>>

\* dual_confirmation.py:260-282  the signals found are sent in one alert
DualSendAlerts ==
    /\ dual_pc = "send"
    /\ dual_calls' = IF confirmed_signals # <<>>
                     THEN Append(dual_calls, "send_dual_confirmation_alert")
                     ELSE dual_calls
    /\ dual_pc' = "done"
    /\ UNCHANGED <<market_data, dual_i, confirmed_signals, last_analysis>>
    /\ UNCHANGED <<core_vars, cipher_vars, fresh_vars, ha_vars, run_vars,
                   more_vars>>

NextDual ==
    \/ DualStart
    \/ DualAnalyzeCoin
    \/ DualSendAlerts

SpecDual == Init /\ [][NextDual]_vars


\* ------------------------------------------------------------------ claims
\* The record of the pair the last call on the deduplicator was about.
ObsRecord == recorded[Canon(obs.symbol, obs.signal_type)]
\* The record of the pair caller p is processing.
PassRecord(p) == recorded[Canon(symbol[p], signal_type[p])]

\* C1: in the main pipeline with one AlertDeduplicator, whenever an alert for
\* a (symbol, signalType) is allowed and sent, at least cooldown_seconds have
\* passed since the previous alert for that pair was recorded by the same
\* deduplicator.
C1_OneAlertPerCooldown ==
    \A p \in Procs :
        (/\ pc[p] \in {"send", "record"}
         /\ PassRecord(p) # NoRecord
         /\ PassRecord(p).inst)
        => now - PassRecord(p).t >= cooldown_seconds

\* A second alert for a pair has been sent by the deduplicator that recorded
\* the first.
C1_Witness ==
    /\ pc[1] = "record"
    /\ PassRecord(1) # NoRecord
    /\ PassRecord(1).inst

\* C2: a check for a pair with no active record (none, or one whose cooldown
\* has elapsed) returns False, and a check made less than cooldown_seconds
\* after the pair was recorded returns True.
C2_AllowThenDeny ==
    obs.op = "is_duplicate" =>
        /\ (ObsRecord = NoRecord \/ obs.t - ObsRecord.t >= cooldown_seconds)
               => obs.ret = FALSE
        /\ (ObsRecord # NoRecord /\ obs.t - ObsRecord.t < cooldown_seconds)
               => obs.ret = TRUE

\* A check right after the record (same clock value) was denied.
C2_Witness ==
    /\ obs.op = "is_duplicate"
    /\ ObsRecord # NoRecord
    /\ ObsRecord.t = obs.t
    /\ obs.ret = TRUE

\* C3: no two callers that share the deduplicator have both passed the
\* is_duplicate check for the same (symbol, signalType) and both sent the
\* alert.
C3_CheckAndSetAtomic ==
    ~ \E p, q \in Procs :
        /\ p # q
        /\ pc[p] = "record"
        /\ pc[q] = "record"
        /\ symbol[p] = symbol[q]
        /\ signal_type[p] = signal_type[q]

\* The dedup check of caller 1 for a signal on a candle one timeframe width
\* after the candle of the recorded alert for the same pair.
NextBucketCheck ==
    /\ pc[1] = "dedup"
    /\ pc'[1] # "dedup"
    /\ PassRecord(1) # NoRecord
    /\ candle[1] = PassRecord(1).candle + TimeframeSeconds

C5_ExpiredAllowed ==
    /\ (/\ obs.op = "is_duplicate"
        /\ ObsRecord # NoRecord
        /\ obs.t - ObsRecord.t >= cooldown_seconds)
       => (obs.ret = FALSE /\ obs.key \notin DOMAIN alert_cache)
    /\ obs.op = "record_alert"
       => (obs.key \in DOMAIN alert_cache /\ alert_cache[obs.key] = obs.t)

\* A check exactly cooldown_seconds after the record.
C5_Witness ==
    /\ obs.op = "is_duplicate"
    /\ ObsRecord # NoRecord
    /\ obs.t - ObsRecord.t = cooldown_seconds
    /\ obs.ret = FALSE

\* C6: record_alert leaves the answer of is_duplicate unchanged for every
\* input that denotes another (symbol, signalType).
C6_RecordFrame ==
    [][(obs'.op = "record_alert" /\ now' = now) =>
          \A i \in Inputs :
              Canon(i[1], i[2]) # Canon(obs'.symbol, obs'.signal_type)
              => DuplicateAnswer(i[1], i[2])' = DuplicateAnswer(i[1], i[2])]_vars

\* BTC BUY was just recorded; BTC SELL is not a duplicate, ETH BUY still is.
C6_Witness ==
    /\ obs.op = "record_alert"
    /\ obs.key = <<"B","T","C","_","B","U","Y">>
    /\ ~DuplicateAnswer(<<"B","T","C">>, SELL)
    /\ DuplicateAnswer(<<"E","T","H">>, BUY)

\* C7: a check for a pair made in the same timeframe bucket as the record of
\* that pair uses the key the record stored, whatever the letter case of the
\* two calls' arguments.
C7_KeyDeterministic ==
    (/\ obs.op = "is_duplicate"
     /\ ObsRecord # NoRecord
     /\ BucketStart(obs.t) = BucketStart(ObsRecord.t))
    => obs.key = ObsRecord.key

\* A lower-case check at another instant of the bucket of the record used the
\* upper-case key.
C7_Witness ==
    /\ obs.op = "is_duplicate"
    /\ obs.symbol = <<"b","t","c">>
    /\ ObsRecord # NoRecord
    /\ ObsRecord.key = <<"B","T","C","_","B","U","Y">>
    /\ BucketStart(obs.t) = BucketStart(ObsRecord.t)
    /\ obs.t # ObsRecord.t

\* C8: a deduplicator built from the cache file holds every record younger
\* than cooldown_seconds and none older, and its is_duplicate returns True
\* for a pair a previous deduplicator recorded less than cooldown_seconds ago.
C8_SurvivesRestart ==
    /\ obs.op = "__init__" =>
          /\ \A k \in DOMAIN alert_cache :
                 obs.t - alert_cache[k] < cooldown_seconds
          /\ \A c \in Pairs :
                 (recorded[c] # NoRecord
                  /\ obs.t - recorded[c].t < cooldown_seconds)
                 => /\ recorded[c].key \in DOMAIN alert_cache
                    /\ alert_cache[recorded[c].key] = recorded[c].t
    /\ (/\ obs.op = "is_duplicate"
        /\ ObsRecord # NoRecord
        /\ ~ObsRecord.inst
        /\ obs.t - ObsRecord.t < cooldown_seconds)
       => obs.ret = TRUE

\* A check in a new deduplicator of a pair the previous one recorded.
C8_Witness ==
    /\ obs.op = "is_duplicate"
    /\ ObsRecord # NoRecord
    /\ ~ObsRecord.inst
    /\ obs.ret = TRUE

\* C9: when the cache file cannot be read or written, candidates are denied:
\* after a failed read no candidate passes the dedup check, and a pair that
\* was recorded less than cooldown_seconds ago is reported as a duplicate
\* whether or not its record reached the file.
C9_FailClosed ==
    /\ load_failed => \A p \in Procs : pc[p] \notin {"send", "record"}
    /\ (/\ obs.op = "is_duplicate"
        /\ ObsRecord # NoRecord
        /\ obs.t - ObsRecord.t < cooldown_seconds)
       => obs.ret = TRUE

\* C10: cleanup_expired removes exactly the entries at least cooldown_seconds
\* old and returns their number; called again at the same clock value it
\* returns 0 and changes neither the cache nor the file.
C10_CleanupExact ==
    [][(obs'.op = "cleanup_expired" /\ now' = now) =>
          LET old == {k \in DOMAIN alert_cache :
                         now - alert_cache[k] >= cooldown_seconds}
          IN /\ alert_cache' = DictDel(alert_cache, old)
             /\ obs'.ret = Cardinality(old)
             /\ (obs.op = "cleanup_expired" /\ obs.t = now)
                => /\ obs'.ret = 0
                   /\ alert_cache' = alert_cache
                   /\ cache_file' = cache_file]_vars

\* A cleanup removed an entry and kept a younger one.
C10_Witness ==
    /\ obs.op = "cleanup_expired"
    /\ obs.ret > 0
    /\ alert_cache # EmptyDict

\* C14: at every index a buySignal implies a cross between the index before
\* and this one, wt2 - wt1 <= 0 and both lines at or below -60; a sellSignal
\* implies a cross, wt2 - wt1 >= 0 and both lines at or above 60; there is no
\* signal where no cross occurred or a line is undefined.
Defined(t) == ~wt_series[t].wt1.nan /\ ~wt_series[t].wt2.nan
CrossAt(t) ==
    /\ t > 1
    /\ Defined(t - 1)
    /\ Defined(t)
    /\ \/ /\ wt_series[t - 1].wt1.v <= wt_series[t - 1].wt2.v
          /\ wt_series[t].wt1.v > wt_series[t].wt2.v
       \/ /\ wt_series[t - 1].wt1.v >= wt_series[t - 1].wt2.v
          /\ wt_series[t].wt1.v < wt_series[t].wt2.v

C14_SignalConditions ==
    \A t \in DOMAIN signals_df :
        /\ signals_df[t].buySignal =>
              /\ CrossAt(t)
              /\ wt_series[t].wt2.v - wt_series[t].wt1.v <= 0
              /\ wt_series[t].wt1.v <= -60
              /\ wt_series[t].wt2.v <= -60
        /\ signals_df[t].sellSignal =>
              /\ CrossAt(t)
              /\ wt_series[t].wt2.v - wt_series[t].wt1.v >= 0
              /\ wt_series[t].wt1.v >= 60
              /\ wt_series[t].wt2.v >= 60
        /\ (~CrossAt(t) \/ ~Defined(t)) =>
              ~signals_df[t].buySignal /\ ~signals_df[t].sellSignal

\* A buy signal at the second index.
C14_Witness ==
    /\ Len(signals_df) >= 2
    /\ signals_df[2].buySignal

\* C15: buySignal and sellSignal are never both true at an index.
C15_BuySellExclusive ==
    \A t \in DOMAIN signals_df :
        ~(signals_df[t].buySignal /\ signals_df[t].sellSignal)

\* A sell signal at the second index, and no buy signal there.
C15_Witness ==
    /\ Len(signals_df) >= 2
    /\ signals_df[2].sellSignal
    /\ ~signals_df[2].buySignal

\* C18: is_new_4h_candle returns True exactly when the signal timestamp and
\* the current time lie in the same 4-hour bucket and at most 15 minutes have
\* passed since that bucket began: True at 15 minutes sharp, False one second
\* later, False for every timestamp of an earlier bucket.
Bucket4h(dt) == TotalSeconds(dt) \div 14400
C18_FreshIff ==
    is_new.called =>
        LET cur == clock_4h.current_time
            sig == clock_4h.signal_timestamp
            elapsed == TotalSeconds(cur) - Bucket4h(cur) * 14400
        IN /\ is_new.ret = (Bucket4h(sig) = Bucket4h(cur) /\ elapsed <= 900)
           /\ (Bucket4h(sig) = Bucket4h(cur) /\ elapsed = 900) => is_new.ret
           /\ elapsed = 901 => ~is_new.ret
           /\ Bucket4h(sig) < Bucket4h(cur) => ~is_new.ret

\* A check made 15 minutes sharp after the open of the bucket of the signal,
\* which is not the first bucket of a day, found the signal fresh.
C18_Witness ==
    /\ is_new.called
    /\ is_new.ret
    /\ clock_4h.current_time.hour = 4
    /\ clock_4h.current_time.minute = 15
    /\ clock_4h.current_time.second = 0

\* C20: heikin_ashi returns as many rows as it was given, with
\* Close'[i] = (O+H+L+C)/4, Open'[1] = (O[1]+C[1])/2,
\* Open'[i] = (Open'[i-1] + Close'[i-1])/2, High'[i] = max(Open', Close', H),
\* Low'[i] = min(Open', Close', L), hence High' >= max(Open', Close') and
\* Low' <= min(Open', Close'); the input is left as it was.
HaRowsCorrect ==
    LET ha == ha_df.rows
    IN /\ DOMAIN ha = DOMAIN df
       /\ \A i \in DOMAIN ha :
             /\ 4 * ha[i].Close =
                   (df[i].Open + df[i].High + df[i].Low + df[i].Close) * HaUnit
             /\ i = 1 => 2 * ha[i].Open = (df[1].Open + df[1].Close) * HaUnit
             /\ i > 1 => 2 * ha[i].Open = ha[i - 1].Open + ha[i - 1].Close
             /\ ha[i].High \in {ha[i].Open, ha[i].Close, df[i].High * HaUnit}
             /\ ha[i].High >= ha[i].Open
             /\ ha[i].High >= ha[i].Close
             /\ ha[i].High >= df[i].High * HaUnit
             /\ ha[i].Low \in {ha[i].Open, ha[i].Close, df[i].Low * HaUnit}
             /\ ha[i].Low <= ha[i].Open
             /\ ha[i].Low <= ha[i].Close
             /\ ha[i].Low <= df[i].Low * HaUnit

C20_HeikinAshi ==
    [][(~ha_df.called /\ ha_df'.called /\ ~ha_df'.raised)
          => (df' = df /\ HaRowsCorrect')]_vars

\* Two candles were converted, and the second HA candle's high is its HA
\* open, above the high of the candle it came from.
C20_Witness ==
    /\ ha_df.called
    /\ Len(ha_df.rows) = 2
    /\ ha_df.rows[2].High = ha_df.rows[2].Open
    /\ ha_df.rows[2].High > df[2].High * HaUnit

\* C16: in the main pipeline the dedup cache is consulted, the alert sent and
\* the record written only for a confirmed candidate: a BUY whose latest
\* stoch_rsi_k is a number <= 20 or a SELL whose latest stoch_rsi_k is a
\* number >= 80, never one whose oscillator failed or is undefined.
C16_ConfirmedOnly ==
    \A p \in Procs :
        pc[p] \in {"dedup", "send", "record"} =>
            /\ latest_stoch[p].state = "value"
            /\ \/ signal_type[p] = BUY /\ latest_stoch[p].k <= 20
               \/ signal_type[p] = SELL /\ latest_stoch[p].k >= 80

\* A SELL confirmed at 80 sharp is being sent.
C16_Witness ==
    /\ pc[1] = "send"
    /\ signal_type[1] = SELL
    /\ latest_stoch[1].k = 80

\* C11: when run_signal_detection has returned, the last call the run made on
\* the deduplicator was cleanup_expired, whatever the run met: signals or
\* none, failed coins or none, empty lists or not.
C11_CleanupAtRunEnd ==
    run_pc = "done" => obs.op = "cleanup_expired"

\* C12: a coin whose processing fails does not end the scan of its list: what
\* _process_coin_category returns comes after one call of
\* _process_single_coin per coin of the list, in list order; and the failing
\* coin leaves the deduplication cache, its file and the counts of signals
\* and alerts as they were, so the other coins fare as they would without it.
C12_ExceptionIsolation ==
    [][/\ \A c \in Categories :
             results'[c].returned =>
                 results'[c].attempted = filtered_coins'[c]
       /\ (run_pc \in Categories /\ run_pc' = run_pc
           /\ scan'.failed # scan.failed) =>
              /\ scan'.i = scan.i + 1
              /\ scan'.signals_found = scan.signals_found
              /\ scan'.alerts_sent = scan.alerts_sent
              /\ alert_cache' = alert_cache
              /\ cache_file' = cache_file
              /\ recorded' = recorded]_vars

\* A list of three coins was scanned to its end although its first two coins
\* failed, and the third coin's alert was sent.
C12_Witness ==
    /\ results["standard"].returned
    /\ results["standard"].coins_processed = 3
    /\ results["standard"].failed = {1, 2}
    /\ results["standard"].alerts_sent = 1

\* C13: the errors count _process_coin_category returns for a list is the
\* number of coins of the list whose processing failed.
C13_ErrorsCountFailures ==
    \A c \in Categories :
        (results[c].returned /\ results[c].coins_processed > 0) =>
            /\ results[c].has_errors
            /\ results[c].errors = Cardinality(results[c].failed)

\* C17: once the candidate is past the dedup check, analyze_coin_dual_confirmation
\* returns the primary-only signal with status "unavailable" when the 3h
\* data is missing and with status "calc_error" when the calculation raises;
\* every signal returned has a status among confirmed, unavailable,
\* calc_error; "confirmed" only with a latest %D <= 30 for BUY or >= 70 for
\* SELL; no signal with status "rejected" is kept.
C17_FallbackStatus ==
    /\ last_analysis.called =>
          /\ last_analysis.fetch_3h = "none" =>
                /\ last_analysis.has
                /\ last_analysis.signal.stochrsi_status = "unavailable"
          /\ last_analysis.d_line.state = "raise" =>
                /\ last_analysis.has
                /\ last_analysis.signal.stochrsi_status = "calc_error"
          /\ last_analysis.has =>
                last_analysis.signal.stochrsi_status
                    \in {"confirmed", "unavailable", "calc_error"}
          /\ (last_analysis.has
              /\ last_analysis.signal.stochrsi_status = "confirmed") =>
                /\ last_analysis.fetch_3h = "ok"
                /\ last_analysis.d_line.state = "value"
                /\ \/ /\ last_analysis.signal.signal_type = BUY
                      /\ last_analysis.d_line.d <= 30
                   \/ /\ last_analysis.signal.signal_type = SELL
                      /\ last_analysis.d_line.d >= 70
    /\ \A i \in DOMAIN confirmed_signals :
          confirmed_signals[i].stochrsi_status # "rejected"

\* A SELL was returned as confirmed with %D at 70, after a first coin's
\* signal fell back to the primary-only signal for lack of 3h data.
C17_Witness ==
    /\ Len(confirmed_signals) = 2
    /\ confirmed_signals[1].stochrsi_status = "unavailable"
    /\ confirmed_signals[2].stochrsi_status = "confirmed"
    /\ confirmed_signals[2].signal_type = SELL
    /\ confirmed_signals[2].stochrsi_d_value = [has |-> TRUE, v |-> 70]

\* C19: the deduplicator is called only for a candidate that has passed the
\* secondary confirmation, and a candidate the confirmation drops has not
\* touched the deduplicator.
C19_PipelineOrder ==
    last_analysis.called =>
        LET log == last_analysis.log
        IN /\ \A i \in DOMAIN log :
                 log[i] = "dedup" =>
                     \E j \in 1..(i - 1) : log[j] = "confirmation"
           /\ (/\ ~last_analysis.has
               /\ \E j \in DOMAIN log : log[j] = "confirmation")
              => ~\E i \in DOMAIN log : log[i] = "dedup"

\* C24: whenever the 3h data was fetched and check_stochrsi_confirmation
\* reports the signal as not confirmed (an undefined latest %D included),
\* analyze_coin_dual_confirmation returns no signal; so a signal returned
\* after a check that did not raise is one the check confirmed.
C24_NotConfirmedNoSignal ==
    (/\ last_analysis.called
     /\ last_analysis.fetch_3h = "ok"
     /\ last_analysis.d_line.state \in {"nan", "value"}
     /\ last_analysis.has)
    => check_stochrsi_confirmation(last_analysis.d_line,
                                   last_analysis.signal.signal_type,
                                   DOversold, DOverbought).confirmed

\* C25: a row where wt1 was below wt2 one index earlier and is at or above
\* wt2 now (equality included), with both lines at or below -60, carries
\* buySignal; a row where wt1 was above wt2 and is at or below wt2 now,
\* with both lines at or above 60, carries sellSignal.
C25_CrossWithEquality ==
    \A t \in DOMAIN signals_df :
        t > 1 =>
            LET prev == wt_series[t - 1]
                cur == wt_series[t]
            IN /\ (/\ Lt(prev.wt1, prev.wt2)
                   /\ Ge(cur.wt1, cur.wt2)
                   /\ Le(cur.wt1, Num(-60))
                   /\ Le(cur.wt2, Num(-60)))
                  => signals_df[t].buySignal
               /\ (/\ Gt(prev.wt1, prev.wt2)
                   /\ Le(cur.wt1, cur.wt2)
                   /\ Ge(cur.wt1, Num(60))
                   /\ Ge(cur.wt2, Num(60)))
                  => signals_df[t].sellSignal

\* C28: in the main pipeline record_alert is called only after
\* send_signal_alert returned True; when the alert is not sent the pass ends
\* with alert_sent False and the deduplicator as it was, and the pair is not
\* a duplicate afterwards.
C28_RecordOnlyAfterSuccess ==
    [][/\ pc'[1] = "record" => success'[1] = "sent"
       /\ (pc[1] = "send" /\ pc'[1] = "idle") =>
             /\ alert_cache' = alert_cache
             /\ cache_file' = cache_file
             /\ recorded' = recorded
             /\ obs' = obs
             /\ ~result'[1].alert_sent
             /\ LET cache_key == get_cache_key(symbol[1], signal_type[1])
                IN ~(/\ cache_key \in DOMAIN alert_cache'
                     /\ InCooldown(now' - alert_cache'[cache_key]))
       /\ (obs' # obs /\ obs'.op = "record_alert") =>
             (pc[1] = "record" /\ success[1] = "sent")]_vars

\* A pass ended without an alert after the pair had passed is_duplicate and
\* the alert had been attempted: the pair is still no duplicate.
C28_Witness ==
    /\ pc[1] = "idle"
    /\ result[1] = [signal_detected |-> TRUE, alert_sent |-> FALSE]
    /\ obs.op = "is_duplicate"
    /\ ~obs.ret
    /\ obs.t = now
    /\ ~DuplicateAnswer(obs.symbol, obs.signal_type)

\* C29: in every state the deduplicator reaches through record_alert,
\* is_duplicate, force_reset_cooldown and cleanup_expired, a call of
\* cleanup_expired leaves the answer of is_duplicate for every pair as it
\* was, and removes no record younger than cooldown_seconds.
C29_CleanupKeepsVerdict ==
    [][(obs'.op = "cleanup_expired" /\ now' = now) =>
          /\ \A i \in Inputs :
                DuplicateAnswer(i[1], i[2])' = DuplicateAnswer(i[1], i[2])
          /\ \A k \in DOMAIN alert_cache :
                now - alert_cache[k] < cooldown_seconds =>
                    /\ k \in DOMAIN alert_cache'
                    /\ alert_cache'[k] = alert_cache[k]]_vars

\* cleanup_expired has just removed an expired record and kept a younger
\* one, whose pair is still a duplicate.
C29_Witness ==
    /\ obs.op = "cleanup_expired"
    /\ obs.t = now
    /\ obs.ret > 0
    /\ \E i \in Inputs : DuplicateAnswer(i[1], i[2])

\* C23: for candles of one constant price the computation of the primary
\* oscillator completes with a row for every candle, wt1 and wt2 are
\* undefined at every index, and no row carries buySignal or sellSignal.
FlatPrice ==
    \A t \in DOMAIN src :
        /\ src[t].High = src[1].Close
        /\ src[t].Low = src[1].Close
        /\ src[t].Close = src[1].Close

C23_FlatPriceUndefined ==
    (wave_df.called /\ FlatPrice) =>
        /\ Len(wave_df.rows) = Len(src)
        /\ \A t \in DOMAIN wave_df.rows :
              /\ wave_df.rows[t].wt1.nan
              /\ wave_df.rows[t].wt2.nan
              /\ ~wave_df.rows[t].buySignal
              /\ ~wave_df.rows[t].sellSignal

\* The oscillator has run over four candles of one price, past the window
\* of wt2.
C23_Witness ==
    /\ wave_df.called
    /\ FlatPrice
    /\ Len(src) > MaLen
    /\ wave_df.rows[Len(src)].wt2.nan

\* C22: at every index where the RSI range over the stochastic window is 0,
\* the raw stochastic value is the midpoint 50 on the 0..100 scale, in
\* stochastic_rsi and in calculate_stochastic_rsi.
RangeIsZero(rsi_values, t) ==
    Eq(Sub(rolling_max(rsi_values, periods.stoch_period)[t],
           rolling_min(rsi_values, periods.stoch_period)[t]), Num(0))

C22_ZeroRangeMidpoint ==
    /\ stoch_rsi_out.called =>
          \A t \in DOMAIN close_prices :
              RangeIsZero(stoch_rsi_out.rsi, t) =>
                  stoch_rsi_out.stoch_k_raw[t] = Num(50)
    /\ stoch_3h_out.called =>
          \A t \in DOMAIN close_prices :
              RangeIsZero(stoch_3h_out.rsi, t) =>
                  Mul(stoch_3h_out.stoch_rsi[t], Num(100)) = Num(50)

\* C27: rsi(series, period) is 100 at every index where the last period
\* price changes hold a gain and no loss, and 0 where they hold a loss and
\* no gain.
WindowSum(series, t) ==
    SumF(series, t - periods.rsi_period + 1, t)

C27_RsiExtremes ==
    stoch_rsi_out.called =>
        \A t \in DOMAIN close_prices :
            t >= periods.rsi_period =>
                LET gains == WindowSum(gain(diff(close_prices)), t)
                    losses == WindowSum(loss(diff(close_prices)), t)
                IN /\ (Gt(gains, Num(0)) /\ Eq(losses, Num(0)))
                      => stoch_rsi_out.rsi[t] = Num(100)
                   /\ (Gt(losses, Num(0)) /\ Eq(gains, Num(0)))
                      => stoch_rsi_out.rsi[t] = Num(0)

\* C21: given fewer candles than the least count the oscillator needs
\* downstream (one candle included), heikin_ashi fails instead of
\* returning smoothed candles.
C21_InsufficientDataError ==
    (ha_df.called /\ Len(df) < min_periods(DefaultIndicator)) => ha_df.raised

\* C26: calculate_signals of a CipherBIndicator built with the levels L and
\* H fires BUY only on a row with wt1 <= L and wt2 <= L, and SELL only on a
\* row with wt1 >= H and wt2 >= H.
C26_ConfiguredLevels ==
    (ind_signals.called /\ ~ind_signals.none) =>
        \A t \in DOMAIN ind_signals.rows :
            LET row == ind_signals.rows[t]
            IN /\ row.buySignal =>
                     /\ Le(row.wt1, Num(indicator.oversold_level))
                     /\ Le(row.wt2, Num(indicator.oversold_level))
               /\ row.sellSignal =>
                     /\ Ge(row.wt1, Num(indicator.overbought_level))
                     /\ Ge(row.wt2, Num(indicator.overbought_level))

\* C30: a scan within the first 15 minutes after the latest 4h candle
\* opened gets True from is_new_4h_candle for the timestamp of that candle.
C30_GatePassable ==
    (gate.called /\ scan_4h.delay <= FreshnessMinutes * 60) => gate.ret

====
